---- MODULE Spec2Model ----
(***************************************************************************)
(* Per-project storage-bucket provisioning of threadwork:                  *)
(*   - the stored procedure create_project_bucket                          *)
(*     (supabase/migrations/20240220000001_create_project_bucket_...sql)   *)
(*   - its client createAndUploadProjectZip / getProjectDownloadUrl        *)
(*     (frontend/src/lib/storage-utils.ts)                                 *)
(*   - the credit-gated submission HomePage.handleSubmit                   *)
(*     (frontend/src/pages/Home.tsx, unnamed/part_005, unnamed/part_008)   *)
(*                                                                         *)
(* Text (SQL text, container names, file names) is a sequence of strings:  *)
(* every interpolated value is spelled character by character, a constant  *)
(* piece of a format template is one element (a "chunk").                  *)
(***************************************************************************)
EXTENDS Integers, Sequences, FiniteSets, TLC

\* ------------------------------------------------------------------ bounds

\* calls of createAndUploadProjectZip and getProjectDownloadUrl made in one
\* behaviour, all sessions together
MaxRuns == 2

\* the browser sessions that call concurrently
Clients == {"s1", "s2"}

\* submissions of the HomePage form made in one behaviour, all tabs together
MaxSubmits == 3

\* statements run on public.credits in one behaviour, all callers together
MaxOps == 2

\* the created_at values of projects are 1..MaxCreated
MaxCreated == 2

\* the largest credit_amount a user starts with
MaxCredit == 2

\* ------------------------------------------------------------------- text

DQ == "\""
SQ == "'"

LowerLetters ==
    {"a","b","c","d","e","f","g","h","i","j","k","l","m",
     "n","o","p","q","r","s","t","u","v","w","x","y","z"}
DigitChars == {"0","1","2","3","4","5","6","7","8","9"}
HexChars == <<"0","1","2","3","4","5","6","7","8","9","a","b","c","d","e","f">>

\* the project ids callers pass (text): a numeric id, and one holding a quote
ProjectIds == { <<"4","2">>, <<"7",DQ>> }

\* the values random() draws
RandomValues == {1, 2}

\* hex digest of sha256: 32 bytes, two hex characters each
DigestHexLen == 64

\* encode(sha256(random()::text::bytea), 'hex'): a fixed text of DigestHexLen
\* hex characters per random value (a stand-in for the hash: equal inputs give
\* equal digests, the modelled inputs give different ones)
Sha256Hex(r) == [i \in 1..DigestHexLen |-> HexChars[((r * 7 + i * 3) % 16) + 1]]

ProjectPrefix == <<"p","r","o","j","e","c","t","-">>

\* 'project-' || project_id || '-' || encode(sha256(...), 'hex')
BucketNameOf(project_id, r) == ProjectPrefix \o project_id \o <<"-">> \o Sha256Hex(r)

\* `project-${projectId}.zip`
ZipFileName(projectId) == ProjectPrefix \o projectId \o <<".","z","i","p">>

\* ---------------------------------------------------- format() and %I

\* %I leaves a text alone only when it is a plain lower-case identifier
IsPlainIdent(s) ==
    /\ Len(s) > 0
    /\ s[1] \in LowerLetters \cup {"_"}
    /\ \A i \in 1..Len(s) : s[i] \in LowerLetters \cup DigitChars \cup {"_"}

RECURSIVE DoubleQuotes(_)
DoubleQuotes(s) ==
    IF s = <<>> THEN <<>>
    ELSE (IF Head(s) = DQ THEN <<DQ, DQ>> ELSE <<Head(s)>>) \o DoubleQuotes(Tail(s))

\* format's %I (quote_ident): the argument as an SQL identifier, wrapped in
\* double quotes, embedded double quotes doubled, whenever it is not plain
QuoteIdent(s) ==
    IF IsPlainIdent(s) THEN s ELSE <<DQ>> \o DoubleQuotes(s) \o <<DQ>>

KwDrop == "drop policy if exists "
KwCreate == "create policy "
KwOnObjects == " on storage.objects"
KwDownloadFor == "Public Downloads for "
KwUploadFor == "Authenticated Uploads for "
KwSelectUsing == " on storage.objects for select to public using ( bucket_id = "
KwInsertCheck == " on storage.objects for insert to authenticated with check ( bucket_id = "
KwClose == " );"

\* format('drop policy if exists "Public Downloads for %I" on storage.objects', n)
DropDownloadStmt(n) ==
    <<KwDrop, DQ, KwDownloadFor>> \o QuoteIdent(n) \o <<DQ, KwOnObjects>>

\* format('drop policy if exists "Authenticated Uploads for %I" on storage.objects', n)
DropUploadStmt(n) ==
    <<KwDrop, DQ, KwUploadFor>> \o QuoteIdent(n) \o <<DQ, KwOnObjects>>

\* format('create policy "Public Downloads for %I" on storage.objects for select
\*         to public using ( bucket_id = ''%I'' );', n, n)
CreateDownloadStmt(n) ==
    <<KwCreate, DQ, KwDownloadFor>> \o QuoteIdent(n)
        \o <<DQ, KwSelectUsing, SQ>> \o QuoteIdent(n) \o <<SQ, KwClose>>

\* format('create policy "Authenticated Uploads for %I" on storage.objects for insert
\*         to authenticated with check ( bucket_id = ''%I'' );', n, n)
CreateUploadStmt(n) ==
    <<KwCreate, DQ, KwUploadFor>> \o QuoteIdent(n)
        \o <<DQ, KwInsertCheck, SQ>> \o QuoteIdent(n) \o <<SQ, KwClose>>

\* -------------------------------------------- how the backend reads SQL text

\* position of the quote that closes a quoted token whose content starts at i
\* (a doubled quote is an escaped quote, not the end); 0 when it never closes
RECURSIVE ScanQuoted(_, _, _)
ScanQuoted(s, i, q) ==
    IF i > Len(s) THEN 0
    ELSE IF s[i] = q
         THEN (IF i < Len(s) /\ s[i + 1] = q THEN ScanQuoted(s, i + 2, q) ELSE i)
         ELSE ScanQuoted(s, i + 1, q)

\* the content of a quoted token: doubled quotes stand for one
RECURSIVE Unquote(_, _)
Unquote(s, q) ==
    IF s = <<>> THEN <<>>
    ELSE IF Head(s) = q /\ Len(s) > 1 /\ s[2] = q
         THEN <<q>> \o Unquote(Tail(Tail(s)), q)
         ELSE <<Head(s)>> \o Unquote(Tail(s), q)

SyntaxError == [ok |-> FALSE, kind |-> "none", name |-> <<>>, cmd |-> "none",
                role |-> "none", lit |-> <<>>]

\* the statement an `execute` text is parsed to: DROP POLICY IF EXISTS <name> ON
\* storage.objects, or CREATE POLICY <name> ON storage.objects FOR <cmd> TO <role>
\* USING/WITH CHECK ( bucket_id = '<lit>' ); anything else is a syntax error
ParseStmt(stmt) ==
    IF Len(stmt) < 4 \/ stmt[1] \notin {KwDrop, KwCreate} \/ stmt[2] # DQ
    THEN SyntaxError
    ELSE LET e == ScanQuoted(stmt, 3, DQ)
             name == Unquote(SubSeq(stmt, 3, e - 1), DQ)
         IN  IF e <= 3 \/ e >= Len(stmt) THEN SyntaxError
             ELSE IF stmt[1] = KwDrop
             THEN (IF SubSeq(stmt, e + 1, Len(stmt)) = <<KwOnObjects>>
                   THEN [ok |-> TRUE, kind |-> "drop", name |-> name, cmd |-> "none",
                         role |-> "none", lit |-> <<>>]
                   ELSE SyntaxError)
             ELSE IF stmt[e + 1] \notin {KwSelectUsing, KwInsertCheck}
                     \/ Len(stmt) < e + 3 \/ stmt[e + 2] # SQ
             THEN SyntaxError
             ELSE LET f == ScanQuoted(stmt, e + 3, SQ)
                  IN  IF f = 0 \/ SubSeq(stmt, f + 1, Len(stmt)) # <<KwClose>>
                      THEN SyntaxError
                      ELSE [ok |-> TRUE, kind |-> "create", name |-> name,
                            cmd |-> IF stmt[e + 1] = KwSelectUsing THEN "select" ELSE "insert",
                            role |-> IF stmt[e + 1] = KwSelectUsing THEN "public"
                                                                    ELSE "authenticated",
                            lit |-> Unquote(SubSeq(stmt, e + 3, f - 1), SQ)]

\* ------------------------------------------------------------------ state

\* the roles a request reaches the database as: the session's, or anon without one
Roles == {"anon", "authenticated"}

\* the file lists callers pass: none, and one file
FileLists == { <<>>, <<[name |-> "index.html", content |-> "<h1>hi</h1>"]>> }

\* what JavaScript interpolates for a value that is undefined
Undefined == <<"u","n","d","e","f","i","n","e","d">>
NoName == <<>>

VARIABLES
    buckets,    \* storage.buckets, committed rows [id, name, public]
    policies,   \* the policies on storage.objects, committed [name, cmd, role, lit]
    objects,    \* storage.objects, committed rows [bucket_id, name, entries]
    call,       \* per session: its create_project_bucket call and that call's transaction
    client,     \* per session: its createAndUploadProjectZip invocation
    returned,   \* the bucket names successful create_project_bucket calls returned
    runs,       \* invocations started so far
    accessed    \* per session: what its latest getProjectDownloadUrl call returned

storageVars == <<buckets, policies, objects, call, client, returned, runs, accessed>>

VARIABLES
    build,        \* which HomePage source the frontend is built from
    credits,      \* public.credits: the rows the user's query sees, [credit_amount]
    page,         \* per browser tab: the HomePage instance and its running submission
    generations,  \* create-project requests that succeeded
    submits,      \* submissions started so far
    granted       \* the credit_amount the user started with (none: 0)

homeVars == <<build, credits, page, generations, submits, granted>>

VARIABLES
    rlsPolicies,  \* the policies on public.credits the applied migrations created
    creditTable,  \* public.credits, all users' rows [user_id, credit_amount]
    lastOp,       \* the latest statement a caller ran on public.credits
    rlsOps        \* statements run so far

rlsVars == <<rlsPolicies, creditTable, lastOp, rlsOps>>

VARIABLES
    auth,      \* what useAuth() gives: [loading, user]
    location,  \* the path the router is at
    shown,     \* the page App renders, "nothing" when it renders none
    login,     \* LoginPage's state
    authRun,   \* the run of handleAuth in progress or just finished
    billing,   \* BillingPage's state
    latest     \* ProjectsPage's state for the Latest Project card

siteVars == <<auth, location, shown, login, authRun, billing, latest>>

restVars == <<rlsVars, siteVars>>

vars == <<storageVars, homeVars, restVars>>

NoCall == [pc |-> "none", role |-> "anon", project_id |-> NoName, rnd |-> 0,
           name |-> NoName, tb |-> {}, tdrop |-> {}, tadd |-> {},
           entered |-> FALSE, insertedRow |-> FALSE, overlapped |-> FALSE,
           error |-> "none", rows |-> <<>>]

IdleClient == [pc |-> "idle", role |-> "anon", projectId |-> NoName, files |-> <<>>,
               bucket_name |-> NoName, result |-> NoName, nRpc |-> 0, nUpload |-> 0,
               nUrl |-> 0, rpcError |-> "none", uploadedTo |-> NoName, provRnd |-> 0,
               prev |-> <<>>]

NoAccess == [projectId |-> NoName, url |-> NoName]

\* the storage backend is empty and no session has called anything
StorageAtRest ==
    /\ buckets = {}
    /\ policies = {}
    /\ objects = {}
    /\ call = [c \in Clients |-> NoCall]
    /\ client = [c \in Clients |-> IdleClient]
    /\ returned = {}
    /\ runs = 0
    /\ accessed = [c \in Clients |-> NoAccess]

\* the browser tabs showing HomePage
Tabs == {"t1", "t2"}

\* the sources of the HomePage component in the repository
HomeBuilds == {"frontend/src/pages/Home.tsx", "unnamed/part_005", "unnamed/part_008"}

\* useState(false), useState<string | null>(null); the route "/" shows HomePage
IdlePage == [pc |-> "idle", loading |-> FALSE, showFullScreenLoader |-> FALSE,
             error |-> "null", location |-> "/",
             seen |-> [state |-> "nothing", credit_amount |-> 0], posts |-> 0,
             inflight |-> 0]

\* nobody has credits and no tab has submitted anything
HomeAtRest ==
    /\ build = "frontend/src/pages/Home.tsx"
    /\ credits = <<>>
    /\ page = [t \in Tabs |-> IdlePage]
    /\ generations = 0
    /\ submits = 0
    /\ granted = 0

\* the users that have accounts
Users == {"u1", "u2"}

NoOp == [role |-> "anon", uid |-> "null", cmd |-> "none", ok |-> TRUE, rows |-> {}]

\* public.credits is empty, without policies, and nobody has run a statement
RlsAtRest ==
    /\ rlsPolicies = {}
    /\ creditTable = {}
    /\ lastOp = NoOp
    /\ rlsOps = 0

\* useAuth() before the session is known
AuthLoading == [loading |-> TRUE, user |-> "null"]

\* LoginPage is not mounted
LoginGone == [pc |-> "unmounted", action |-> "none", loading |-> FALSE, error |-> "null"]

\* no handleAuth has run
NoRun == [action |-> "none", calls |-> <<>>, done |-> FALSE, loading |-> FALSE,
          error |-> "null"]

\* BillingPage is not mounted
BillingGone == [pc |-> "unmounted", loading |-> FALSE, error |-> "null", credits |-> <<>>,
                outcome |-> "none"]

\* ProjectsPage is not mounted
LatestGone == [pc |-> "unmounted", loadingLatest |-> FALSE, latestError |-> "null",
               latestProject |-> <<>>, user |-> "null", got |-> "none", queries |-> 0,
               table |-> {}]

\* the browser has the application's address and nothing is rendered yet
SiteAtRest ==
    /\ auth = AuthLoading
    /\ location = "/"
    /\ shown = "nothing"
    /\ login = LoginGone
    /\ authRun = NoRun
    /\ billing = BillingGone
    /\ latest = LatestGone

RestAtRest == RlsAtRest /\ SiteAtRest

Init == StorageAtRest /\ HomeAtRest /\ RestAtRest

\* -------------------------------------------------- create_project_bucket

\* who may execute the function: creating a function grants EXECUTE to PUBLIC,
\* and the migration adds the role authenticated (it revokes nothing)
ExecuteGrantees == {"PUBLIC", "authenticated"}

HasExecute(role) == "PUBLIC" \in ExecuteGrantees \/ role \in ExecuteGrantees

\* what the call's transaction sees: the committed rows and its own changes
ViewBuckets(k) == buckets \cup k.tb
ViewPolicies(k) == {p \in policies : p.name \notin k.tdrop} \cup k.tadd

\* the container is created private
BucketRowPrivate(n) == [id |-> n, name |-> n, public |-> FALSE]

\* values (new_bucket_name, new_bucket_name, true)
BucketRow(n) == [id |-> n, name |-> n, public |-> TRUE]

\* insert into storage.buckets ... on conflict (id) do nothing
InsertBucket(k) ==
    IF \E b \in ViewBuckets(k) : b.id = k.name THEN k.tb ELSE k.tb \cup {BucketRow(k.name)}

\* the insert waits while another open transaction holds an uncommitted row
\* with the same id
InsertBlocked(c) ==
    \E d \in Clients \ {c} :
        call[d].pc \in {"drop1", "drop2", "create1", "create2"}
            /\ \E b \in call[d].tb : b.id = call[c].name

\* the text each `execute` of the procedure runs, in order
StmtAt(pc, n) ==
    CASE pc = "drop1" -> DropDownloadStmt(n)
      [] pc = "drop2" -> DropUploadStmt(n)
      [] pc = "create1" -> CreateDownloadStmt(n)
      [] pc = "create2" -> CreateUploadStmt(n)

NextPc(pc) ==
    CASE pc = "drop1" -> "drop2"
      [] pc = "drop2" -> "create1"
      [] pc = "create1" -> "create2"
      [] pc = "create2" -> "commit"

\* the call raises: nothing after the failing statement runs
Abort(k, err) == [k EXCEPT !.pc = "abort", !.error = err]

\* every statement is durable as soon as it ran, whatever happens later
PersistedNoRollback(k) == [tb |-> k.tb, tdrop |-> k.tdrop, tadd |-> k.tadd]

\* what the end of the call's transaction makes durable: everything it changed
\* when the procedure returned, nothing when it raised (rollback)
Persisted(k) ==
    IF k.error = "none"
    THEN [tb |-> k.tb, tdrop |-> k.tdrop, tadd |-> k.tadd]
    ELSE [tb |-> {}, tdrop |-> {}, tadd |-> {}]

\* the call is over: its response is ready and its transaction is closed
Respond(k) ==
    [k EXCEPT !.pc = "responded", !.tb = {}, !.tdrop = {}, !.tadd = {},
              !.rows = IF k.error = "none" THEN <<[bucket_name |-> k.name]>> ELSE <<>>]

InBody == {"insert", "drop1", "drop2", "create1", "create2"}

\* another session's call for the same project is running while c's starts
Overlaps(c, d) ==
    d # c /\ call[d].pc \in InBody /\ call[d].project_id = call[c].project_id

\* the backend receives the call: the execute privilege is checked, then the
\* body starts and derives the bucket name from a fresh random value
RpcEnter(c) ==
    /\ call[c].pc = "received"
    /\ \E r \in RandomValues :
         call' = [d \in Clients |->
                    IF d = c
                    THEN (IF ~HasExecute(call[c].role)
                          THEN Respond(Abort(call[c], "42501 permission denied"))
                          ELSE [call[c] EXCEPT !.pc = "insert", !.rnd = r, !.entered = TRUE,
                                               !.overlapped = \E e \in Clients : Overlaps(c, e),
                                               !.name = BucketNameOf(call[c].project_id, r)])
                    ELSE [call[d] EXCEPT !.overlapped = @ \/ (HasExecute(call[c].role)
                                                               /\ Overlaps(c, d))]]
    /\ UNCHANGED <<buckets, policies, objects, client, returned, runs, accessed, homeVars, restVars>>

RpcInsert(c) ==
    /\ call[c].pc = "insert"
    /\ ~InsertBlocked(c)
    /\ call' = [call EXCEPT ![c] = [call[c] EXCEPT !.pc = "drop1",
                                                     !.tb = InsertBucket(call[c]),
                                                     !.insertedRow = InsertBucket(call[c]) # {}]]
    /\ UNCHANGED <<buckets, policies, objects, client, returned, runs, accessed, homeVars, restVars>>

\* one `execute`: the text is parsed and run inside the call's transaction
ExecStmt(k) ==
    LET st == ParseStmt(StmtAt(k.pc, k.name))
    IN  IF ~st.ok THEN Abort(k, "42601 syntax error")
        ELSE IF st.kind = "drop"
        THEN [k EXCEPT !.pc = NextPc(k.pc),
                       !.tdrop = @ \cup {st.name},
                       !.tadd = {p \in @ : p.name # st.name}]
        ELSE IF \E p \in ViewPolicies(k) : p.name = st.name
        THEN Abort(k, "42710 duplicate object")
        ELSE [k EXCEPT !.pc = NextPc(k.pc),
                       !.tadd = @ \cup {[name |-> st.name, cmd |-> st.cmd,
                                          role |-> st.role, lit |-> st.lit]}]

\* id like 'project-%'
IsProjectContainer(n) ==
    Len(n) >= Len(ProjectPrefix) /\ SubSeq(n, 1, Len(ProjectPrefix)) = ProjectPrefix

\* a call that raised cleans up behind it: it deletes the containers whose id
\* starts with 'project-'
RpcExecuteCleanup(c) ==
    /\ call[c].pc \in {"drop1", "drop2", "create1", "create2"}
    /\ LET k == ExecStmt(call[c])
           d == Persisted(k)
       IN  IF k.pc \in {"commit", "abort"}
           THEN /\ buckets' = (IF k.error = "none" THEN buckets
                               ELSE {b \in buckets : ~IsProjectContainer(b.id)}) \cup d.tb
                /\ policies' = {p \in policies : p.name \notin d.tdrop} \cup d.tadd
                /\ returned' = IF k.error = "none" THEN returned \cup {k.name} ELSE returned
                /\ call' = [call EXCEPT ![c] = Respond(k)]
           ELSE /\ call' = [call EXCEPT ![c] = k]
                /\ UNCHANGED <<buckets, policies, returned>>
    /\ UNCHANGED <<objects, client, runs, accessed, homeVars, restVars>>

\* the four `execute` statements, one per step; after the last one the procedure
\* returns its one row; when it returned or raised, the transaction ends
RpcExecute(c) ==
    /\ call[c].pc \in {"drop1", "drop2", "create1", "create2"}
    /\ LET k == ExecStmt(call[c])
           d == Persisted(k)
       IN  IF k.pc \in {"commit", "abort"}
           THEN /\ buckets' = buckets \cup d.tb
                /\ policies' = {p \in policies : p.name \notin d.tdrop} \cup d.tadd
                /\ returned' = IF k.error = "none" THEN returned \cup {k.name} ELSE returned
                /\ call' = [call EXCEPT ![c] = Respond(k)]
           ELSE /\ call' = [call EXCEPT ![c] = k]
                /\ UNCHANGED <<buckets, policies, returned>>
    /\ UNCHANGED <<objects, client, runs, accessed, homeVars, restVars>>

\* ---------------------------------------------- createAndUploadProjectZip

Null == <<>>

\* the `data` of the rpc result: null with an error, else the rows of the
\* procedure's result table as a JSON array
RpcData(k) ==
    IF k.error # "none" THEN [type |-> "null", items |-> <<>>]
    ELSE [type |-> "array", items |-> k.rows]

\* the invocation goes on as if the rpc had answered
RpcFailedNever(k) == FALSE

\* `const { data: { bucket_name }, error: bucketError } = ...; if (bucketError) throw`:
\* destructuring null throws, an error is thrown; both end in the catch
RpcFailed(k) == RpcData(k).type = "null" \/ k.error # "none"

\* `{ bucket_name }` of data: the property of that name, which an array has not
DataBucketName(data) ==
    IF data.type = "object" THEN data.items[1].bucket_name ELSE Undefined

\* zip.file(name, content) for each file in order: a later entry of the same
\* name replaces the earlier one
ZipEntries(files) ==
    {[name |-> files[i].name, content |-> files[i].content] : i \in
        {j \in 1..Len(files) : \A m \in (j + 1)..Len(files) : files[m].name # files[j].name}}

\* storage.from(bucket).getPublicUrl(fileName)
PublicUrl(bucket, fileName) == <<"/storage/v1/object/public/">> \o bucket \o <<"/">> \o fileName

\* the storage backend lets `role` insert an object into `bucket`: the bucket
\* exists and an insert policy for that role admits the bucket_id
MayInsert(role, bucket) ==
    /\ \E b \in buckets : b.id = bucket
    /\ \E p \in policies :
         p.cmd = "insert" /\ p.role \in {"public", role} /\ p.lit = bucket

\* upload(fileName, blob, {upsert: true}): the object of that name is replaced
Upsert(bucket, fileName, entries) ==
    {o \in objects : ~(o.bucket_id = bucket /\ o.name = fileName)}
        \cup {[bucket_id |-> bucket, name |-> fileName, entries |-> entries]}

\* a session calls createAndUploadProjectZip(projectId, files): the rpc is sent
Invoke(c) ==
    /\ client[c].pc \in {"idle", "done"}
    /\ runs < MaxRuns
    /\ runs' = runs + 1
    /\ \E role \in Roles, pid \in ProjectIds, files \in FileLists :
         /\ client' = [client EXCEPT ![c] =
                         [IdleClient EXCEPT !.pc = "rpc", !.role = role, !.projectId = pid,
                                            !.files = files, !.nRpc = 1,
                                            !.prev = client[c].prev]]
         /\ call' = [call EXCEPT ![c] =
                       [NoCall EXCEPT !.pc = "received", !.role = role, !.project_id = pid]]
    /\ UNCHANGED <<buckets, policies, objects, returned, accessed, homeVars, restVars>>

Summary(cl) ==
    [projectId |-> cl.projectId, files |-> cl.files, role |-> cl.role, result |-> cl.result,
     provRnd |-> cl.provRnd, rpcError |-> cl.rpcError]

\* the invocation returns; the session remembers it as its latest one
Finish(cl) ==
    [cl EXCEPT !.pc = "done",
               !.prev = <<Summary(cl)>> \o (IF @ = <<>> THEN <<>> ELSE <<@[1]>>)]

\* the rest of createAndUploadProjectZip, one remote call per step: the rpc's
\* result is read and the archive built; then the upload is made and, when it
\* succeeded, the public URL derived
ClientStep(c) ==
    /\ client[c].pc \in {"rpc", "upload"}
    /\ client[c].pc = "rpc" => call[c].pc = "responded"
    /\ IF client[c].pc = "rpc"
       THEN /\ client' = [client EXCEPT ![c] =
                  IF RpcFailed(call[c])
                  THEN Finish([client[c] EXCEPT !.rpcError = call[c].error, !.result = Null,
                                                !.provRnd = call[c].rnd])
                  ELSE [client[c] EXCEPT !.pc = "upload", !.provRnd = call[c].rnd,
                                         !.rpcError = call[c].error,
                                         !.bucket_name = DataBucketName(RpcData(call[c]))]]
            /\ call' = [call EXCEPT ![c] = NoCall]
            /\ UNCHANGED objects
       ELSE \E net \in BOOLEAN :
              LET cl == client[c]
                  fileName == ZipFileName(cl.projectId)
                  ok == net /\ MayInsert(cl.role, cl.bucket_name)
              IN  /\ objects' = IF ok THEN Upsert(cl.bucket_name, fileName, ZipEntries(cl.files))
                                      ELSE objects
                  /\ client' = [client EXCEPT ![c] =
                        Finish([cl EXCEPT !.nUpload = @ + 1, !.uploadedTo = cl.bucket_name,
                                          !.nUrl = IF ok THEN @ + 1 ELSE @,
                                         !.result = IF ok THEN PublicUrl(cl.bucket_name, fileName)
                                                    ELSE Null])]
                  /\ UNCHANGED call
    /\ UNCHANGED <<buckets, policies, returned, runs, accessed, homeVars, restVars>>

\* ------------------------------------------------- getProjectDownloadUrl

\* the accessor names another container
FixedContainerTypo == <<"p","r","o","j","e","c","t","s">>

\* .from('project-files')
FixedContainer == <<"p","r","o","j","e","c","t","-","f","i","l","e","s">>

\* getProjectDownloadUrl(projectId): the public URL of project-<projectId>.zip
\* in the fixed container; no request is made
getProjectDownloadUrl(projectId) == PublicUrl(FixedContainer, ZipFileName(projectId))

\* a session calls getProjectDownloadUrl(projectId)
CallGetProjectDownloadUrl(c) ==
    /\ runs < MaxRuns
    /\ runs' = runs + 1
    /\ \E pid \in ProjectIds :
         accessed' = [accessed EXCEPT ![c] =
                        [projectId |-> pid, url |-> getProjectDownloadUrl(pid)]]
    /\ UNCHANGED <<buckets, policies, objects, call, client, returned, homeVars, restVars>>

Next ==
    \E c \in Clients :
        \/ Invoke(c) \/ RpcEnter(c) \/ RpcInsert(c) \/ RpcExecute(c) \/ ClientStep(c)
        \/ CallGetProjectDownloadUrl(c)

Spec == Init /\ [][Next]_vars

\* a container and its policy made outside these operations: the container
\* 'project-files' that getProjectDownloadUrl reads from
ExistingContainer == [id |-> FixedContainer, name |-> FixedContainer, public |-> TRUE]
ExistingPolicy ==
    [name |-> <<"Public Access">>, cmd |-> "select", role |-> "public", lit |-> FixedContainer]

\* the storage backend already holds that container when the sessions start
InitExisting ==
    /\ buckets = {ExistingContainer}
    /\ policies = {ExistingPolicy}
    /\ objects = {}
    /\ call = [c \in Clients |-> NoCall]
    /\ client = [c \in Clients |-> IdleClient]
    /\ returned = {}
    /\ runs = 0
    /\ accessed = [c \in Clients |-> NoAccess]
    /\ HomeAtRest
    /\ RestAtRest

SpecExisting == InitExisting /\ [][Next]_vars

\* ------------------------------------------------- HomePage.handleSubmit

\* supabase.from('credits').select('credit_amount').single(): the one row the
\* user's query matches; any other number of rows is an error and no data
Single(rows) ==
    IF Len(rows) = 1
    THEN [state |-> "row", credit_amount |-> rows[1].credit_amount, error |-> "none"]
    ELSE [state |-> IF Len(rows) = 0 THEN "norow" ELSE "rows", credit_amount |-> 0,
          error |-> "PGRST116"]

\* the credits check is there (Home.tsx, part_008) or commented out (part_005)
ChecksCredits(b) == b # "unnamed/part_005"

\* setError(e instanceof Error ? e.message : 'An error occurred')
CaughtMessage(e) == IF e.isError THEN e.message ELSE "An error occurred"

\* catch { setError(...) } finally { setLoading(false) }
Caught(pg, e) ==
    [pg EXCEPT !.pc = "idle", !.error = CaughtMessage(e), !.loading = FALSE,
               !.showFullScreenLoader = FALSE, !.inflight = @ - 1]

\* navigate(to) or window.location.href = to, then finally { setLoading(false) }
Leave(pg, to) ==
    [pg EXCEPT !.pc = "idle", !.location = to, !.loading = FALSE,
               !.showFullScreenLoader = FALSE, !.inflight = @ - 1]

\* fetch('http://localhost:8000/create-project', { method: 'POST', ... }) is sent
SendCreateProject(pg) == [pg EXCEPT !.pc = "post", !.posts = @ + 1]

\* where a successful submission goes
SuccessTarget(b) == IF b = "unnamed/part_005" THEN "http://localhost:5174" ELSE "/success"

\* the create-project endpoint spends one credit of the user for the generation
\* it triggers
SpendCredit(rows) ==
    IF rows = <<>> THEN rows ELSE [rows EXCEPT ![1].credit_amount = @ - 1]

\* the submit button takes clicks whatever the page is doing
SubmitAlways(pg) == TRUE

\* <button type="submit" disabled={loading}>
SubmitEnabled(pg) == ~pg.loading

\* the form is submitted on a tab showing HomePage: handleSubmit up to its
\* first await
Submit(t) ==
    /\ SubmitEnabled(page[t])
    /\ submits < MaxSubmits
    /\ submits' = submits + 1
    /\ LET pg == [IdlePage EXCEPT !.loading = TRUE, !.inflight = page[t].inflight + 1,
                                  !.showFullScreenLoader = (build = "unnamed/part_005")]
       IN  page' = [page EXCEPT ![t] =
                      IF ChecksCredits(build) THEN [pg EXCEPT !.pc = "credits"]
                      ELSE SendCreateProject(pg)]
    /\ UNCHANGED <<build, credits, generations, granted, storageVars, restVars>>

\* the credits query answers: handleSubmit up to its second await or its end
CreditsAnswer(t) ==
    /\ page[t].pc = "credits"
    /\ \E net \in BOOLEAN, isError \in BOOLEAN :
         LET q == IF net THEN Single(credits)
                  ELSE [state |-> "failed", credit_amount |-> 0, error |-> "Failed to fetch"]
             pg == [page[t] EXCEPT !.seen = [state |-> q.state,
                                             credit_amount |-> q.credit_amount]]
         IN  page' = [page EXCEPT ![t] =
                        IF q.error # "none"
                        THEN Caught(pg, [isError |-> isError, message |-> q.error])
                        ELSE IF q.state # "row" \/ q.credit_amount < 1
                        THEN Leave(pg, "/billing")
                        ELSE SendCreateProject(pg)]
    /\ UNCHANGED <<build, credits, generations, submits, granted, storageVars, restVars>>

\* the create-project request answers: the rest of handleSubmit
CreateProjectAnswer(t) ==
    /\ page[t].pc = "post"
    /\ \E outcome \in {"ok", "not ok", "no answer"} :
         /\ page' = [page EXCEPT ![t] =
                       CASE outcome = "ok" -> Leave(page[t], SuccessTarget(build))
                         [] outcome = "not ok" ->
                              Caught(page[t], [isError |-> TRUE,
                                               message |-> "Failed to create project"])
                         [] outcome = "no answer" ->
                              Caught(page[t], [isError |-> TRUE,
                                               message |-> "Failed to fetch"])]
         /\ generations' = IF outcome = "ok" THEN generations + 1 ELSE generations
         /\ credits' = IF outcome = "ok" THEN SpendCredit(credits) ELSE credits
    /\ UNCHANGED <<build, submits, granted, storageVars, restVars>>

\* the frontend is built from one of the HomePage sources; the user has no
\* credits row or one row
InitHome ==
    /\ StorageAtRest
    /\ build \in HomeBuilds
    /\ credits \in {<<>>} \cup {<<[credit_amount |-> a]>> : a \in 0..MaxCredit}
    /\ granted = (IF credits = <<>> THEN 0 ELSE credits[1].credit_amount)
    /\ page = [t \in Tabs |-> IdlePage]
    /\ generations = 0
    /\ submits = 0
    /\ RestAtRest

NextHome == \E t \in Tabs : Submit(t) \/ CreditsAnswer(t) \/ CreateProjectAnswer(t)

SpecHome == InitHome /\ [][NextHome]_vars

\* ------------------------------------------ row-level security on credits

\* CREATE POLICY ... ON public.credits of unnamed/part_003 (no TO clause: the
\* policy applies to every role)
Part003Policies ==
    { [name |-> "Credits are viewable by owner", cmd |-> "select", to |-> "public"],
      [name |-> "Users can insert their own credits", cmd |-> "insert", to |-> "public"],
      [name |-> "Users can update own credits", cmd |-> "update", to |-> "public"] }

\* CREATE POLICY "Users can view own credits" ON credits FOR SELECT TO authenticated
FixRlsPolicies ==
    { [name |-> "Users can view own credits", cmd |-> "select", to |-> "authenticated"] }

\* the policy sets a database has after the migrations that enable row-level
\* security on credits: either one, or both
RlsDeployments == {Part003Policies, FixRlsPolicies, Part003Policies \cup FixRlsPolicies}

\* who runs a statement: auth.uid() is null without a session
Callers ==
    {[role |-> "anon", uid |-> "null"]}
        \cup {[role |-> "authenticated", uid |-> u] : u \in Users}

\* the rows a statement can name
CreditRows == {[user_id |-> u, credit_amount |-> a] : u \in Users, a \in {0, 5}}

\* USING (true)
OwnRowTrue(caller, row) == TRUE

\* (auth.uid() = user_id): true only for a caller with a uid, equal to the row's
OwnRow(caller, row) == caller.uid # "null" /\ caller.uid = row.user_id

\* row-level security is enabled: a statement reaches a row only through a
\* policy for its command that applies to the caller's role and whose
\* expression is true of the row (USING; WITH CHECK defaults to the same)
RlsAllows(caller, cmd, row) ==
    \E p \in rlsPolicies :
        /\ p.cmd = cmd
        /\ p.to \in {"public", caller.role}
        /\ OwnRow(caller, row)

\* what the statement did: the rows it returned and the rows it changed
OpRecord(caller, cmd, ok, read, before, after) ==
    [role |-> caller.role, uid |-> caller.uid, cmd |-> cmd, ok |-> ok,
     rows |-> read \cup (before \ after) \cup (after \ before)]

\* select ... from credits
RlsSelect(caller) ==
    /\ rlsOps < MaxOps
    /\ rlsOps' = rlsOps + 1
    /\ lastOp' = OpRecord(caller, "select", TRUE,
                          {r \in creditTable : RlsAllows(caller, "select", r)},
                          creditTable, creditTable)
    /\ UNCHANGED <<rlsPolicies, creditTable, storageVars, homeVars, siteVars>>

\* insert into credits values (row): a row the policy's check refuses is an error
RlsInsert(caller, row) ==
    /\ rlsOps < MaxOps
    /\ rlsOps' = rlsOps + 1
    /\ creditTable' = IF RlsAllows(caller, "insert", row) THEN creditTable \cup {row}
                      ELSE creditTable
    /\ lastOp' = OpRecord(caller, "insert", RlsAllows(caller, "insert", row), {},
                          creditTable, creditTable')
    /\ UNCHANGED <<rlsPolicies, storageVars, homeVars, siteVars>>

\* update credits set user_id = row.user_id, credit_amount = row.credit_amount:
\* it changes the rows the policy lets the caller reach; a new row the check
\* refuses is an error and nothing changes
RlsUpdate(caller, row) ==
    /\ rlsOps < MaxOps
    /\ rlsOps' = rlsOps + 1
    /\ LET reached == {r \in creditTable : RlsAllows(caller, "update", r)}
           ok == reached = {} \/ RlsAllows(caller, "update", row)
       IN  /\ creditTable' = IF ok /\ reached # {}
                             THEN (creditTable \ reached) \cup {row}
                             ELSE creditTable
           /\ lastOp' = OpRecord(caller, "update", ok, {}, creditTable, creditTable')
    /\ UNCHANGED <<rlsPolicies, storageVars, homeVars, siteVars>>

\* delete from credits: it removes the rows a policy for delete lets the caller
\* reach (neither migration creates one)
RlsDelete(caller) ==
    /\ rlsOps < MaxOps
    /\ rlsOps' = rlsOps + 1
    /\ creditTable' = {r \in creditTable : ~RlsAllows(caller, "delete", r)}
    /\ lastOp' = OpRecord(caller, "delete", TRUE, {}, creditTable, creditTable')
    /\ UNCHANGED <<rlsPolicies, storageVars, homeVars, siteVars>>

\* the migrations are applied and some users have a credits row
InitRls ==
    /\ StorageAtRest
    /\ HomeAtRest
    /\ rlsPolicies \in RlsDeployments
    /\ creditTable \in SUBSET {[user_id |-> u, credit_amount |-> 5] : u \in Users}
    /\ lastOp = NoOp
    /\ rlsOps = 0
    /\ SiteAtRest

NextRls ==
    \E caller \in Callers :
        \/ RlsSelect(caller)
        \/ RlsDelete(caller)
        \/ \E row \in CreditRows : RlsInsert(caller, row) \/ RlsUpdate(caller, row)

SpecRls == InitRls /\ [][NextRls]_vars

\* ------------------------------------------------- App, routes and pages

\* the paths of App's routes, and one that matches none of them
ProtectedPaths == {"/", "/projects", "/billing"}

Paths == ProtectedPaths \cup {"/login", "/other"}

ProtectedPages == {"HomePage", "ProjectsPage", "BillingPage"}

\* the element of each protected route
PageAt(loc) ==
    CASE loc = "/" -> "HomePage"
      [] loc = "/projects" -> "ProjectsPage"
      [] loc = "/billing" -> "BillingPage"

\* a ProtectedRoute that renders its children whatever useAuth() gives
ProtectedRouteOpen(a, children) == children

\* if (loading) return null; if (!user) return <Navigate to="/login" replace />
ProtectedRoute(a, children) ==
    IF a.loading THEN "nothing"
    ELSE IF a.user = "null" THEN "Navigate:/login"
    ELSE children

\* <Routes>: /login, the three protected routes, and * -> <Navigate to="/" />
Routes(loc, a) ==
    IF loc = "/login" THEN "LoginPage"
    ELSE IF loc \in ProtectedPaths THEN ProtectedRoute(a, PageAt(loc))
    ELSE "Navigate:/"

\* rendering follows every <Navigate> until a route renders something else
RECURSIVE Settle(_, _)
Settle(loc, a) ==
    LET e == Routes(loc, a)
    IN  IF e = "Navigate:/login" THEN Settle("/login", a)
        ELSE IF e = "Navigate:/" THEN Settle("/", a)
        ELSE [location |-> loc, shown |-> e]

\* useState(false), useState(null) of LoginPage
LoginFresh == [pc |-> "idle", action |-> "none", loading |-> FALSE, error |-> "null"]

\* useState(null), useState(true), useState(null) of BillingPage, then the
\* effect: fetchCredits returns at once without a user, else sends the query
BillingFresh(user) ==
    [pc |-> IF user = "null" THEN "returned" ELSE "fetching", loading |-> TRUE,
     error |-> "null", credits |-> <<>>, outcome |-> "none"]

\* useState(null), useState(true), useState(null) of ProjectsPage, then the
\* effect: fetchLatestCompletedProject awaits supabase.auth.getUser()
LatestFresh ==
    [pc |-> "getUser", loadingLatest |-> TRUE, latestError |-> "null",
     latestProject |-> <<>>, user |-> "null", got |-> "none", queries |-> 0,
     table |-> {}]

\* what is mounted now
Was == [shown |-> shown, login |-> login, billing |-> billing, latest |-> latest]

\* nothing is mounted: the document was loaded anew, or the route was left
Unmounted ==
    [shown |-> "nothing", login |-> LoginGone, billing |-> BillingGone,
     latest |-> LatestGone]

\* App rendered at loc with auth a: a page that stays keeps its state, a page
\* that appears is mounted afresh, the others are unmounted
Place(loc, a, was) ==
    LET s == Settle(loc, a)
    IN  [location |-> s.location,
         shown |-> s.shown,
         login |-> IF s.shown # "LoginPage" THEN LoginGone
                   ELSE IF was.shown = "LoginPage" THEN was.login
                   ELSE LoginFresh,
         billing |-> IF s.shown # "BillingPage" THEN BillingGone
                     ELSE IF was.shown = "BillingPage" THEN was.billing
                     ELSE BillingFresh(a.user),
         latest |-> IF s.shown # "ProjectsPage" THEN LatestGone
                    ELSE IF was.shown = "ProjectsPage" THEN was.latest
                    ELSE LatestFresh]

\* the record of handleAuth's run lasts while it runs and in the state it ends in
KeepRun(l) == IF l.pc \in {"signUp", "signIn"} THEN authRun ELSE NoRun

Apply(p, a) ==
    /\ auth' = a
    /\ location' = p.location
    /\ shown' = p.shown
    /\ login' = p.login
    /\ billing' = p.billing
    /\ latest' = p.latest

\* the document is loaded at a path: AuthProvider starts with loading true
Load(path) ==
    /\ Apply(Place(path, AuthLoading, Unmounted), AuthLoading)
    /\ authRun' = NoRun
    /\ UNCHANGED <<storageVars, homeVars, rlsVars>>

\* useAuth(): the session is known, with a user or without
AuthResolves(u) ==
    /\ auth.loading
    /\ LET a == [loading |-> FALSE, user |-> u]
       IN  Apply(Place(location, a, Was), a)
    /\ authRun' = KeepRun(login')
    /\ UNCHANGED <<storageVars, homeVars, rlsVars>>

\* useAuth(): a user signed in, or the user signed out
AuthStateChange(u) ==
    /\ ~auth.loading
    /\ (auth.user = "null") # (u = "null")
    /\ LET a == [loading |-> FALSE, user |-> u]
       IN  Apply(Place(location, a, Was), a)
    /\ authRun' = KeepRun(login')
    /\ UNCHANGED <<storageVars, homeVars, rlsVars>>

\* a link of Layout's navigation bar
Link(path) ==
    /\ shown \in ProtectedPages
    /\ path \in ProtectedPaths \ {location}
    /\ Apply(Place(path, auth, Was), auth)
    /\ authRun' = NoRun
    /\ UNCHANGED <<storageVars, homeVars, rlsVars>>

\* ---- LoginPage.handleAuth

\* how signUp and signIn end: the promise resolves, or rejects with an Error
\* or with something else
AuthEnds ==
    { [ok |-> TRUE, isError |-> FALSE, message |-> ""],
      [ok |-> FALSE, isError |-> TRUE, message |-> "Invalid login credentials"],
      [ok |-> FALSE, isError |-> FALSE, message |-> ""] }

\* handleAuth goes on to navigate whatever signIn gave
SignedInAlways(r) == TRUE

\* await signIn(email, password) lets the handler go on only when it resolved
SignedIn(r) == r.ok

\* setLoading(true); setError(null); then the first call of the action.
\* The buttons are disabled while loading.
HandleAuth(action) ==
    /\ shown = "LoginPage"
    /\ ~login.loading
    /\ LET first == IF action = "login" THEN "signIn" ELSE "signUp"
       IN  /\ login' = [pc |-> first, action |-> action, loading |-> TRUE,
                        error |-> "null"]
           /\ authRun' = [action |-> action, calls |-> <<first>>, done |-> FALSE,
                          loading |-> TRUE, error |-> "null"]
    /\ UNCHANGED <<auth, location, shown, billing, latest, storageVars, homeVars, rlsVars>>

\* catch (e) { setError(...) } finally { setLoading(false) }
AuthCaught(what, r) ==
    /\ login' = [login EXCEPT !.pc = "idle", !.error = CaughtMessage(r),
                              !.loading = FALSE]
    /\ authRun' = [authRun EXCEPT !.calls = Append(@, what), !.done = TRUE,
                                  !.loading = FALSE, !.error = CaughtMessage(r)]
    /\ UNCHANGED <<auth, location, shown, billing, latest>>

\* await signUp(email, password), then signIn
SignUpAnswer(r) ==
    /\ login.pc = "signUp"
    /\ IF r.ok
       THEN /\ login' = [login EXCEPT !.pc = "signIn"]
            /\ authRun' = [authRun EXCEPT !.calls = @ \o <<"signUp:ok", "signIn">>]
            /\ UNCHANGED <<auth, location, shown, billing, latest>>
       ELSE AuthCaught("signUp:failed", r)
    /\ UNCHANGED <<storageVars, homeVars, rlsVars>>

\* await signIn(email, password), then navigate('/') and
\* finally { setLoading(false) }; the route /login is left, so whatever
\* renders next is mounted afresh
SignInAnswer(r) ==
    /\ login.pc = "signIn"
    /\ IF SignedIn(r)
       THEN /\ Apply(Place("/", auth, Unmounted), auth)
            /\ authRun' = [authRun EXCEPT
                             !.calls = @ \o <<IF r.ok THEN "signIn:ok" ELSE "signIn:failed",
                                              "navigate">>,
                             !.done = TRUE, !.loading = FALSE]
       ELSE AuthCaught("signIn:failed", r)
    /\ UNCHANGED <<storageVars, homeVars, rlsVars>>

\* ---- BillingPage.fetchCredits

\* the rows of credits the query can match, with their credit_amount
CreditResults ==
    {<<>>} \cup {<<[credit_amount |-> a]>> : a \in {0, 5}}
        \cup {<<[credit_amount |-> 5], [credit_amount |-> 0]>>}

\* .maybeSingle(): no row is data null without an error, one row is the row,
\* more rows are an error
MaybeSingle(rows) ==
    IF Len(rows) = 0 THEN [data |-> <<>>, error |-> FALSE]
    ELSE IF Len(rows) = 1 THEN [data |-> rows, error |-> FALSE]
    ELSE [data |-> <<>>, error |-> TRUE]

\* how the query ends: an answer, a request that failed, or an exception
CreditEnds ==
    {[kind |-> "answer", rows |-> rows] : rows \in CreditResults}
        \cup {[kind |-> k, rows |-> <<>>] : k \in {"fetchError", "throw"}}

\* fetchCredits without its finally block
BillingFinallySkipped(b) == b

\* finally { setLoading(false) }
BillingFinally(b) == [b EXCEPT !.loading = FALSE]

\* {credits?.credit_amount || 0}
DisplayedCredits(b) ==
    IF b.credits = <<>> THEN 0
    ELSE IF b.credits[1].credit_amount = 0 THEN 0
    ELSE b.credits[1].credit_amount

\* the query of fetchCredits ends
BillingAnswer(e) ==
    /\ billing.pc = "fetching"
    /\ LET res == IF e.kind = "answer" THEN MaybeSingle(e.rows)
                  ELSE [data |-> <<>>, error |-> TRUE]
           set == IF res.error
                  THEN [billing EXCEPT !.error = "Unable to load credits",
                                       !.outcome = "failed"]
                  ELSE IF res.data = <<>>
                  THEN [billing EXCEPT !.credits = <<[credit_amount |-> 0]>>,
                                       !.outcome = "norow"]
                  ELSE [billing EXCEPT !.credits = res.data, !.outcome = "row"]
       IN  billing' = BillingFinally([set EXCEPT !.pc = "done"])
    /\ UNCHANGED <<auth, location, shown, login, authRun, latest>>
    /\ UNCHANGED <<storageVars, homeVars, rlsVars>>

\* ---- ProjectsPage.fetchLatestCompletedProject

\* the rows the projects table can hold
ProjectRows ==
    [user_id : Users, status : {"completed", "pending"}, created_at : 1..MaxCreated]

\* .eq('user_id', user.id) alone
LatestFilterAnyStatus(r, u) == r.user_id = u

\* .eq('user_id', user.id).eq('project_data->>status', 'completed')
LatestFilter(r, u) == r.user_id = u /\ r.status = "completed"

\* .order('created_at', { ascending: false }).limit(1): the answers the
\* database can give, one row first in the order, or none
LatestQuery(table, u) ==
    LET rows == {r \in table : LatestFilter(r, u)}
        first == {r \in rows : \A q \in rows : q.created_at <= r.created_at}
    IN  IF rows = {} THEN {<<>>} ELSE {<<r>> : r \in first}

\* catch (err) { setLatestError(...) } finally { setLoadingLatest(false) }
LatestCaught(l, e) ==
    [l EXCEPT !.pc = "done", !.loadingLatest = FALSE,
              !.latestError = IF e.isError THEN e.message
                              ELSE "Failed to fetch latest project"]

\* what getUser and the query can throw
Thrown ==
    { [isError |-> TRUE, message |-> "Failed to fetch"],
      [isError |-> FALSE, message |-> ""] }

\* await supabase.auth.getUser() ends: the user of the session, none, or an
\* exception
GetUserAnswer(got, e) ==
    /\ latest.pc = "getUser"
    /\ latest' =
         IF got = "threw" THEN LatestCaught([latest EXCEPT !.got = got], e)
         ELSE IF got = "nouser"
         THEN [latest EXCEPT !.pc = "done", !.got = got,
                             !.latestError = "User not logged in",
                             !.loadingLatest = FALSE]
         ELSE [latest EXCEPT !.pc = "query", !.got = got, !.user = auth.user,
                             !.queries = @ + 1]
    /\ UNCHANGED <<auth, location, shown, login, authRun, billing>>
    /\ UNCHANGED <<storageVars, homeVars, rlsVars>>

\* the query on projects ends, on the table as it is then: an error is
\* thrown, else the first row or null is set
LatestAnswer(table, failed, e) ==
    /\ latest.pc = "query"
    /\ IF failed
       THEN latest' = LatestCaught(latest, e)
       ELSE \E data \in LatestQuery(table, latest.user) :
                latest' = [latest EXCEPT !.pc = "done", !.latestProject = data,
                                         !.table = table, !.loadingLatest = FALSE]
    /\ UNCHANGED <<auth, location, shown, login, authRun, billing>>
    /\ UNCHANGED <<storageVars, homeVars, rlsVars>>

\* {!loadingLatest && !latestError && latestProject && (...)}
ShowsLatestCard(l) ==
    ~l.loadingLatest /\ l.latestError = "null" /\ l.latestProject # <<>>

InitSite == StorageAtRest /\ HomeAtRest /\ RlsAtRest /\ SiteAtRest

NextSite ==
    \/ \E path \in Paths : Load(path) \/ Link(path)
    \/ \E u \in Users \cup {"null"} : AuthResolves(u) \/ AuthStateChange(u)
    \/ \E action \in {"login", "register"} : HandleAuth(action)
    \/ \E r \in AuthEnds : SignUpAnswer(r) \/ SignInAnswer(r)
    \/ \E e \in CreditEnds : BillingAnswer(e)
    \/ \E got \in {"user", "nouser", "threw"}, e \in Thrown : GetUserAnswer(got, e)
    \/ \E table \in SUBSET ProjectRows, failed \in BOOLEAN, e \in Thrown :
           LatestAnswer(table, failed, e)

SpecSite == InitSite /\ [][NextSite]_vars

\* a query that was sent ends
SiteFairness == WF_vars(\E e \in CreditEnds : BillingAnswer(e))

SpecSiteLive == SpecSite /\ SiteFairness

\* ------------------------------------------------------------------ claims

PolicyNameDownload(n) == <<KwDownloadFor>> \o n
PolicyNameUpload(n) == <<KwUploadFor>> \o n

ReadPolicies(n) == {p \in policies : p.cmd = "select" /\ p.role = "public" /\ p.lit = n}
WritePolicies(n) == {p \in policies : p.cmd = "insert" /\ p.role = "authenticated" /\ p.lit = n}

\* the container n exists with exactly one read and exactly one write policy
HasPolicyPair(n) ==
    /\ \E b \in buckets : b.id = n
    /\ Cardinality(ReadPolicies(n)) = 1
    /\ Cardinality(WritePolicies(n)) = 1

ArchivesOf(pid) == {o \in objects : o.name = ZipFileName(pid)}

\* C1: when the create_project_bucket rpc of an invocation failed (its result
\* carries an error and no data), the invocation ends returning null, and has
\* made no upload and derived no public URL.
C1_ProvisionFailureReturnsNull ==
    \A c \in Clients :
        (client[c].pc \in {"upload", "done"} /\ client[c].rpcError # "none")
            => /\ client[c].pc = "done"
               /\ client[c].result = Null
               /\ client[c].nUpload = 0
               /\ client[c].nUrl = 0
               /\ client[c].uploadedTo = NoName

\* an invocation whose rpc the backend ran and failed has returned null
C1_Witness ==
    \E c \in Clients :
        /\ client[c].pc = "done"
        /\ client[c].rpcError = "42601 syntax error"
        /\ client[c].result = Null
        /\ client[c].nRpc = 1

\* Lemma: no invocation ever gets past the rpc. Every create_project_bucket call
\* raises at its first policy statement (C5), so nothing is ever committed,
\* uploaded or returned; the case of C2 (an invocation returning a URL) has no
\* reachable state.
NoBuildGetsPastProvisioning ==
    /\ returned = {} /\ buckets = {} /\ policies = {} /\ objects = {}
    /\ \A c \in Clients : client[c].pc # "upload" /\ client[c].result = Null

\* the name the invocation's create_project_bucket call derived (provRnd: the
\* random value it drew, 0 when the body never ran)
ProvisionedName(h) ==
    IF h.provRnd = 0 THEN NoName ELSE BucketNameOf(h.projectId, h.provRnd)

\* the invocation was made under an authenticated session
Served(h) == h.role = "authenticated"

PolicyScopedTo(stmt, n, cmd, role) ==
    LET st == ParseStmt(stmt)
    IN  st.ok /\ st.kind = "create" /\ st.cmd = cmd /\ st.role = role /\ st.lit = n

\* C6: for the container name n a call derived, the download policy statement
\* the procedure builds is a select policy for every caller whose condition is
\* bucket_id = n, and the upload policy statement is an insert policy for
\* authenticated callers whose condition is bucket_id = n.
C6_PolicyConditionsMatchContainer ==
    \A c \in Clients :
        call[c].name # NoName
            => /\ PolicyScopedTo(CreateDownloadStmt(call[c].name), call[c].name,
                                 "select", "public")
               /\ PolicyScopedTo(CreateUploadStmt(call[c].name), call[c].name,
                                 "insert", "authenticated")

\* C7: a create_project_bucket call that failed answers with an error and no
\* row, and at every moment every committed container has both of its policies:
\* nothing a failed (or still running) call did is visible.
C7_FailedCallLeavesNothing ==
    /\ \A c \in Clients :
         (call[c].pc = "responded" /\ call[c].error # "none")
             => /\ call[c].rows = <<>>
                /\ RpcData(call[c]).type = "null"
                /\ call[c].name \notin returned
    /\ \A b \in buckets :
         /\ \E p \in policies : p.name = PolicyNameDownload(b.id)
         /\ \E p \in policies : p.name = PolicyNameUpload(b.id)

\* a call failed at a policy statement after it had inserted its container
\* row, and no such container is committed
C7_Witness ==
    \E c \in Clients :
        /\ call[c].pc = "responded"
        /\ call[c].insertedRow
        /\ call[c].error = "42601 syntax error"
        /\ \A b \in buckets : b.id # call[c].name

\* C8: two create_project_bucket calls of authenticated callers for the same
\* project that ran at the same time both succeed: neither fails, and each has
\* its container with its own pair of policies. (That one may wait for the other
\* is InsertBlocked, not stated here.)
C8_ConcurrentCallsBothSucceed ==
    \A c \in Clients :
        (call[c].pc = "responded" /\ call[c].overlapped /\ call[c].role = "authenticated")
            => /\ call[c].error = "none"
               /\ HasPolicyPair(call[c].name)

\* C9: a create_project_bucket call of an unauthenticated caller is rejected by
\* the execute privilege before the body runs, and creates no container.
C9_AnonymousCallRejected ==
    \A c \in Clients :
        (call[c].role = "anon" /\ call[c].pc \notin {"none", "received"})
            => /\ ~call[c].entered
               /\ call[c].pc = "responded"
               /\ call[c].error = "42501 permission denied"
               /\ call[c].tb = {}

\* C10: when a call of an authenticated caller derives the name that the
\* session's previous call derived (the random component collides), the second
\* call raises no error and the container has exactly one read and one write policy.
C10_CollidingCallIsIdempotent ==
    \A c \in Clients :
        LET h == client[c].prev
        IN  (/\ Len(h) = 2
             /\ Served(h[1]) /\ Served(h[2])
             /\ ProvisionedName(h[1]) # NoName
             /\ ProvisionedName(h[1]) = ProvisionedName(h[2]))
                => /\ h[1].rpcError = "none"
                   /\ HasPolicyPair(ProvisionedName(h[1]))

HexCharSet == {HexChars[i] : i \in 1..Len(HexChars)}

\* n reads project-<pid>-<DigestHexLen hex characters>
HasNameForm(n, pid) ==
    LET pre == Len(ProjectPrefix) + Len(pid)
    IN  /\ Len(n) = pre + 1 + DigestHexLen
        /\ SubSeq(n, 1, Len(ProjectPrefix)) = ProjectPrefix
        /\ SubSeq(n, Len(ProjectPrefix) + 1, pre) = pid
        /\ n[pre + 1] = "-"
        /\ \A i \in (pre + 2)..Len(n) : n[i] \in HexCharSet

\* C11: when an authenticated session has made two calls in a row for the same
\* project id, each call returned a name of the form
\* project-<project_id>-<64 hex characters>, and the two names differ.
C11_SuccessiveCallsReturnDistinctNames ==
    \A c \in Clients :
        LET h == client[c].prev
        IN  (/\ Len(h) = 2
             /\ Served(h[1]) /\ Served(h[2])
             /\ h[1].projectId = h[2].projectId)
                => /\ \A i \in 1..2 :
                        /\ h[i].rpcError = "none"
                        /\ ProvisionedName(h[i]) \in returned
                        /\ HasNameForm(ProvisionedName(h[i]), h[i].projectId)
                   /\ ProvisionedName(h[1]) # ProvisionedName(h[2])

\* the parts of a public URL: <prefix><container>/<object name>
UrlSlash(url) ==
    CHOOSE i \in 2..Len(url) : url[i] = "/" /\ \A j \in 2..(i - 1) : url[j] # "/"
UrlBucket(url) == SubSeq(url, 2, UrlSlash(url) - 1)
UrlObject(url) == SubSeq(url, UrlSlash(url) + 1, Len(url))

\* the container name 'project-files', spelled out
ProjectFilesName == <<"p","r","o","j","e","c","t","-","f","i","l","e","s">>

\* what C12 says of a state: every URL the accessor returned is the public URL
\* of project-<pid>.zip in 'project-files'; no build derived, holds or uploaded
\* to a container of that name, no object lies in it, and no URL a build
\* returned is the accessor's
C12_State ==
    /\ \A c \in Clients :
         accessed[c] # NoAccess
             => /\ accessed[c].url[1] = "/storage/v1/object/public/"
                /\ UrlBucket(accessed[c].url) = ProjectFilesName
                /\ UrlObject(accessed[c].url) = ZipFileName(accessed[c].projectId)
    /\ \A c \in Clients :
         /\ call[c].name # ProjectFilesName
         /\ client[c].bucket_name # ProjectFilesName
         /\ client[c].uploadedTo # ProjectFilesName
    /\ \A o \in objects : o.bucket_id # ProjectFilesName
    /\ \A c, d \in Clients :
         (accessed[c] # NoAccess /\ client[d].result # Null)
             => accessed[c].url # client[d].result

\* C12: for every project id, getProjectDownloadUrl returns the public URL of
\* project-<project_id>.zip in the fixed container 'project-files', and the step
\* that returns it changes nothing else (no provisioning call, no upload, no
\* backend change); that container is never one a build derives or uploads to,
\* so the accessor's URL never designates an archive a build uploaded.
C12_AccessorUsesFixedContainer ==
    [][ /\ C12_State'
        /\ (accessed' # accessed)
              => UNCHANGED <<buckets, policies, objects, call, client, returned>> ]_vars

\* a session got the accessor's URL for a project for which an authenticated
\* session's build ran create_project_bucket (which derived a container name)
C12_Witness ==
    \E c, d \in Clients :
        /\ accessed[c] # NoAccess
        /\ client[d].pc = "done"
        /\ Served(client[d])
        /\ client[d].provRnd # 0
        /\ client[d].projectId = accessed[c].projectId

\* C13: a submission has sent the POST /create-project request only after its
\* credits query answered with a row whose credit_amount is at least 1; a
\* submission whose credits query answered with an error has sent no request
\* and has set an error message.
C13_RequestOnlyAfterCreditCheck ==
    \A t \in Tabs :
        /\ page[t].posts > 0
              => (page[t].seen.state = "row" /\ page[t].seen.credit_amount >= 1)
        /\ page[t].seen.state \in {"failed", "norow", "rows"}
              => (page[t].posts = 0 /\ page[t].error # "null")

\* C14: a submission that found the credits insufficient (the row's
\* credit_amount is below 1, or the user has no credits row) has navigated to
\* /billing, sent no create-project request, set no error message and left
\* loading false.
C14_InsufficientCreditsGoToBilling ==
    \A t \in Tabs :
        (\/ page[t].seen.state = "norow"
         \/ (page[t].seen.state = "row" /\ page[t].seen.credit_amount < 1))
            => /\ page[t].location = "/billing"
               /\ page[t].posts = 0
               /\ page[t].error = "null"
               /\ page[t].loading = FALSE

C18_CreatedContainersArePublic ==
    /\ \A c \in Clients : \A b \in call[c].tb : b.public = TRUE
    /\ \A b \in buckets : b.public = TRUE

\* a call has inserted its container record and its transaction is still open
C18_Witness ==
    \E c \in Clients :
        /\ call[c].pc = "drop1"
        /\ call[c].insertedRow
        /\ \E b \in call[c].tb : b.id = call[c].name

\* the policies create_project_bucket names for container n
PoliciesNamedFor(n) == {PolicyNameDownload(n), PolicyNameUpload(n)}

\* C19: no step of create_project_bucket, createAndUploadProjectZip or
\* getProjectDownloadUrl removes a container: every container that exists
\* before a step exists after it; and every policy that is not one of the two
\* a running call names for its own container is left as it is.
C19_ContainersOnlyGrow ==
    [][ /\ buckets \subseteq buckets'
        /\ \A p \in policies :
             (\A c \in Clients : p.name \notin PoliciesNamedFor(call[c].name))
                 => p \in policies' ]_vars

\* with a container and its policy in the backend, a call ran its body,
\* inserted a record, raised and answered, and a session used the accessor;
\* the container and its policy are still there
C19_Witness ==
    /\ ExistingContainer \in buckets
    /\ ExistingPolicy \in policies
    /\ \E c \in Clients :
         call[c].pc = "responded" /\ call[c].insertedRow /\ call[c].error # "none"
    /\ \E d \in Clients : accessed[d] # NoAccess

\* C22: on a page instance, loading is true exactly while a submission is
\* running (from the start of handleSubmit to its end, whichever way it ends)
\* and false otherwise, and at most one submission is running at any time.
C22_LoadingSpansTheSubmission ==
    \A t \in Tabs :
        /\ page[t].loading <=> page[t].inflight > 0
        /\ page[t].loading <=> page[t].pc # "idle"
        /\ page[t].inflight <= 1

\* one tab has a submission waiting for the create-project answer, the other
\* has finished one with an error
C22_Witness ==
    \E t, u \in Tabs :
        /\ page[t].pc = "post" /\ page[t].loading
        /\ page[u].pc = "idle" /\ page[u].error # "null" /\ ~page[u].loading
        /\ page[u].seen.state # "nothing"

\* C23: with row-level security on credits, every row a statement returned,
\* inserted or changed belongs to the caller (its user_id is the caller's auth
\* uid) and the caller is authenticated: nobody reads or changes another
\* user's balance, and a caller without a session reads nothing.
C23_OnlyOwnCreditRows ==
    \A r \in lastOp.rows :
        lastOp.role = "authenticated" /\ r.user_id = lastOp.uid

\* a user changed the balance of their own row while another user has a row
C23_Witness ==
    /\ lastOp.cmd = "update"
    /\ lastOp.rows # {}
    /\ \E r \in creditTable : r.user_id # lastOp.uid

\* C21: under App's routes a protected page (HomePage, ProjectsPage,
\* BillingPage) is rendered, and holds state, only when auth has finished
\* loading and a user is present; while auth is loading a protected path
\* renders nothing, and with loading finished and no user the router is at
\* /login and no protected page is rendered.
C21_ProtectedPagesNeedUser ==
    /\ shown \in ProtectedPages => ~auth.loading /\ auth.user # "null"
    /\ billing.pc # "unmounted" => shown = "BillingPage"
    /\ latest.pc # "unmounted" => shown = "ProjectsPage"
    /\ auth.loading /\ location \in ProtectedPaths => shown = "nothing"
    /\ ~auth.loading /\ auth.user = "null" =>
           location = "/login" /\ shown = "LoginPage"

\* a protected page is rendered for a user
C21_Witness ==
    /\ shown = "ProjectsPage"
    /\ location = "/projects"
    /\ auth = [loading |-> FALSE, user |-> "u1"]

\* C24: the Latest Project card is shown only when the fetch has finished
\* without error and returned a project; the project shown is a row of the
\* table that belongs to the user getUser gave, has status 'completed' and has
\* the greatest created_at among that user's completed projects. When getUser
\* gave no user, no query on projects was made and the error is
\* 'User not logged in'.
C24_LatestCardShowsOwnLatestCompleted ==
    /\ shown = "ProjectsPage" /\ ShowsLatestCard(latest) =>
           /\ latest.pc = "done" /\ latest.got = "user" /\ latest.queries = 1
           /\ latest.user = auth.user
           /\ LET p == latest.latestProject[1]
              IN  /\ p \in latest.table
                  /\ p.user_id = latest.user
                  /\ p.status = "completed"
                  /\ \A q \in latest.table :
                         q.user_id = latest.user /\ q.status = "completed"
                             => q.created_at <= p.created_at
    /\ latest.got = "nouser" =>
           /\ latest.queries = 0
           /\ latest.latestError = "User not logged in"
           /\ ~latest.loadingLatest
           /\ ~ShowsLatestCard(latest)
    /\ latest.pc \in {"getUser", "query"} => ~ShowsLatestCard(latest)

\* the card shows the user's completed project although the table holds a
\* later project of the user that is not completed and a later completed
\* project of another user
C24_Witness ==
    /\ shown = "ProjectsPage"
    /\ ShowsLatestCard(latest)
    /\ \E q \in latest.table :
           /\ q.user_id = latest.user /\ q.status = "pending"
           /\ q.created_at > latest.latestProject[1].created_at
    /\ \E q \in latest.table :
           /\ q.user_id # latest.user /\ q.status = "completed"
           /\ q.created_at > latest.latestProject[1].created_at

\* C25: in a run of handleAuth, navigate comes only right after signIn
\* succeeded; a registration calls signUp first and signIn only after signUp
\* succeeded; when signUp or signIn failed the run has ended without
\* navigating and with an error message set; and when the run has ended
\* loading is false.
C25_NavigateOnlyAfterSignIn ==
    LET c == authRun.calls
    IN  /\ \A i \in 1..Len(c) :
               c[i] = "navigate" => i > 1 /\ c[i - 1] = "signIn:ok"
        /\ authRun.action = "register" =>
               /\ c[1] = "signUp"
               /\ \A i \in 1..Len(c) :
                      c[i] = "signIn" => i = 3 /\ c[2] = "signUp:ok"
        /\ (\E i \in 1..Len(c) : c[i] \in {"signUp:failed", "signIn:failed"}) =>
               /\ authRun.done
               /\ \A i \in 1..Len(c) : c[i] # "navigate"
               /\ authRun.error # "null"
               /\ shown = "LoginPage" /\ location = "/login"
               /\ login.error = authRun.error
        /\ authRun.done => ~authRun.loading
        /\ login.pc = "idle" => ~login.loading

\* a registration went through to the navigation and HomePage is rendered
C25_Witness ==
    /\ authRun.action = "register"
    /\ authRun.calls = <<"signUp", "signUp:ok", "signIn", "signIn:ok", "navigate">>
    /\ authRun.done
    /\ shown = "HomePage"

\* what C26 says of the states: BillingPage never takes fetchCredits' early
\* return; after a missing row there is no error and the balance displayed
\* is 0; after a failed fetch the error is 'Unable to load credits' and the
\* balance displayed is 0; in both loading is false
C26_Outcomes ==
    /\ billing.pc # "returned"
    /\ billing.outcome = "norow" =>
           billing.error = "null" /\ DisplayedCredits(billing) = 0 /\ ~billing.loading
    /\ billing.outcome = "failed" =>
           /\ billing.error = "Unable to load credits"
           /\ DisplayedCredits(billing) = 0
           /\ ~billing.loading
    /\ billing.outcome = "row" => billing.error = "null" /\ ~billing.loading

\* C26: after BillingPage mounts under App's routes its loading flag
\* eventually becomes false for as long as the page stays mounted, whether the
\* fetch returns a row, no row, or fails; a missing row is displayed as a
\* balance of 0 with no error, and a failed fetch sets the error
\* 'Unable to load credits' and leaves the balance displayed at 0.
C26_BillingStopsLoading ==
    /\ (shown = "BillingPage" /\ billing.loading)
           ~> (shown # "BillingPage" \/ ~billing.loading)
    /\ []C26_Outcomes

\* the fetch failed on a mounted BillingPage
C26_Witness ==
    /\ shown = "BillingPage"
    /\ billing.outcome = "failed"
    /\ ~billing.loading

====
